---- MODULE Spec2Model ----
(***************************************************************************)
(* A model of the fold engine of lancekmyers/folds: the reducer traits     *)
(* Fold1 / Fold / FoldPar, the primitive reducers of common.rs, the        *)
(* combinators of fold.rs, the execution drivers of fold.rs and the        *)
(* statistical reducers of stats.rs (CM4 and SampleN).                     *)
(*                                                                         *)
(* A reducer definition is a record with a `tag` naming the implementing   *)
(* type and the fields of that type.  An accumulator is a value of the     *)
(* type `M` of the reducer: an integer for the primitives, a pair for      *)
(* Par2 and ComposedFold, a function key -> accumulator for GroupedFold.   *)
(* Item values are unbounded integers: no claim checked here is about      *)
(* arithmetic overflow.  The f64 values of CM4 are exact rationals.        *)
(***************************************************************************)
EXTENDS Integers, Sequences, FiniteSets, TLC

VARIABLES
    fold,        \* the reducer definition handed to the driver
    xs,          \* the input sequence / the items of the stream
    chunk_size,  \* the size handed to IndexedParallelIterator::chunks
    call,        \* the driver that ran last ("idle" before the first call)
    ret,         \* what that driver returned
    accA,        \* accumulator A of the accumulator algebra
    accB,        \* accumulator B of the accumulator algebra
    histA,       \* the items folded into A, in order      (history)
    histB,       \* the items folded into B, in order      (history)
    madeA,       \* how A was created: "none", "init" or "empty"
    madeB,       \* how B was created: "none", "init" or "empty"
    merged_ab,   \* TRUE once B has been merged into A
    j,           \* the concurrency bound of run_fold_par_stream
    stream,      \* the items the stream has not yielded yet
    stream_done, \* the stream has been polled to its end
    queue,       \* Buffered's in-progress queue, in submission order
    m1,          \* the running accumulator of the stream fold
    pc,          \* position of run_fold_par_stream
    tasks,       \* every task spawned so far, by submission number (history)
    finished,    \* submission numbers of finished tasks, in completion order
    m2,          \* the task result handed to the fold closure, or Idle
    merge_log    \* submission numbers of merged tasks, in merge order

vars == <<fold, xs, chunk_size, call, ret, accA, accB, histA, histB, madeA,
          madeB, merged_ab, j, stream, stream_done, queue, m1, m2, pc, tasks,
          finished, merge_log>>

driver_vars == <<call, ret>>
acc_vars    == <<accA, accB, histA, histB, madeA, madeB, merged_ab>>
stream_vars == <<j, stream, stream_done, queue, m1, m2, pc, tasks,
                 finished, merge_log>>

(***************************************************************************)
(* Bounds of the model.                                                    *)
(***************************************************************************)
MaxVal   == 2   \* items are drawn from 0..MaxVal
MaxLen   == 3   \* longest arbitrary input sequence
MaxN     == 5   \* the sequences 0..n are tried for n up to MaxN
MaxChunk == 2   \* chunk sizes 1..MaxChunk
MaxJ     == 3   \* concurrency bounds 0..MaxJ
MaxHist  == 2   \* items folded into one accumulator of the algebra
MaxItems == 4   \* longest stream
MaxSample == 2  \* reservoir sizes 1..MaxSample

(***************************************************************************)
(* Option<O>, plain return values and a panic of the calling thread.       *)
(***************************************************************************)
None     == [tag |-> "None"]
Some(v)  == [tag |-> "Some", val |-> v]
Value(v) == [tag |-> "Value", val |-> v]
Panic    == [tag |-> "Panic"]
Idle     == [tag |-> "Idle"]

(***************************************************************************)
(* Reducer definitions.                                                    *)
(***************************************************************************)
SUM   == [tag |-> "Sum"]
COUNT == [tag |-> "Count"]
MIN   == [tag |-> "Min"]
MAX   == [tag |-> "Max"]
FIRST == [tag |-> "First"]
LAST  == [tag |-> "Last"]

par(f1, f2)          == [tag |-> "Par2", f1 |-> f1, f2 |-> f2]
filter(f, pred)      == [tag |-> "FilteredFold", inner |-> f, pred |-> pred]
group_by(f, get_key) == [tag |-> "GroupedFold", inner |-> f, get_key |-> get_key]
pre_map(f, pre_func) == [tag |-> "PreMap", inner |-> f, pre_func |-> pre_func]
post_map(f, post_func) == [tag |-> "PostMap", inner |-> f, post_func |-> post_func]
then(f, next)        == [tag |-> "ComposedFold", first |-> f, second |-> next]
batched(f)           == [tag |-> "Batched", inner |-> f]

(***************************************************************************)
(* The closures handed to the combinators, by name.                        *)
(***************************************************************************)
Apply(fn, x) ==
    CASE fn = "is_even" -> (x % 2 = 0)
      [] fn = "mod2"    -> x % 2
      [] fn = "double"  -> 2 * x
      [] fn = "succ"    -> x + 1
      [] fn = "id"      -> x

RECURSIVE init(_, _), step(_, _, _), output(_, _), empty(_), merge(_, _, _),
          step_chunk(_, _, _), IsFold(_), IsFoldPar(_), IsCopyM(_)

(***************************************************************************)
(* Trait implementations: which reducers have empty (Fold), merge          *)
(* (FoldPar) and a Copy accumulator.                                       *)
(***************************************************************************)
IsFold(f) ==
    CASE f.tag \in {"Sum", "Count", "CM4"}  -> TRUE
      [] f.tag \in {"Min", "Max", "First", "Last"} -> FALSE
      [] f.tag = "Par2"                     -> IsFold(f.f1) /\ IsFold(f.f2)
      [] f.tag \in {"FilteredFold", "GroupedFold", "PreMap", "PostMap",
                    "Batched"}              -> IsFold(f.inner)
      [] f.tag = "ComposedFold"             -> IsFold(f.first)

IsFoldPar(f) ==
    CASE f.tag \in {"Sum", "Count", "Min", "Max", "CM4"} -> TRUE
      [] f.tag \in {"First", "Last"}        -> FALSE
      [] f.tag = "Par2"                     -> IsFoldPar(f.f1) /\ IsFoldPar(f.f2)
      [] f.tag \in {"FilteredFold", "GroupedFold", "PreMap", "PostMap"}
                                            -> IsFoldPar(f.inner)
      [] f.tag = "Batched"                  -> IsFoldPar(f.inner) /\ IsFold(f.inner)
      [] f.tag = "ComposedFold"             -> FALSE

IsCopyM(f) ==
    CASE f.tag \in {"Sum", "Count", "Min", "Max", "First", "Last", "CM4"}
                                            -> TRUE
      [] f.tag = "Par2"                     -> IsCopyM(f.f1) /\ IsCopyM(f.f2)
      [] f.tag \in {"FilteredFold", "PreMap", "PostMap", "Batched"}
                                            -> IsCopyM(f.inner)
      [] f.tag = "GroupedFold"              -> FALSE
      [] f.tag = "ComposedFold"             -> IsCopyM(f.first) /\ IsCopyM(f.second)

(***************************************************************************)
(* common.rs: the primitive reducers.                                      *)
(***************************************************************************)
RECURSIVE SeqSum(_)
SeqSum(s) == IF s = <<>> THEN 0 ELSE Head(s) + SeqSum(Tail(s))

Sum_init(x)              == x
Sum_step(x, acc)         == acc + x
\* Sum::step_chunk assigning the chunk's sum instead of adding it.
Sum_step_chunk_assign(s, acc) == SeqSum(s)
Sum_step_chunk(s, acc)   == acc + SeqSum(s)
Sum_empty                == 0
Sum_merge(a1, a2)        == a1 + a2

Max_init(x)              == x
Max_step(x, acc)         == IF x < acc THEN acc ELSE x
Max_merge(a1, a2)        == IF a1 > a2 THEN a1 ELSE a2

Min_init(x)              == x
Min_step(x, acc)         == IF x > acc THEN acc ELSE x
Min_merge(a1, a2)        == IF a1 < a2 THEN a1 ELSE a2

First_init(x)            == x
First_step(x, acc)       == acc

Last_init(x)             == x
Last_step(x, acc)        == x

Count_init(x)            == 1
Count_step(x, acc)       == acc + 1
Count_step_chunk(s, acc) == acc + Len(s)
Count_empty              == 0
Count_merge(a1, a2)      == a1 + a2

(***************************************************************************)
(* fold.rs: Par2.                                                          *)
(***************************************************************************)
Par2_init(f, x)      == <<init(f.f1, x), init(f.f2, x)>>
\* Par2::step stepping the first sub-reducer only.
Par2_step_first_only(f, x, acc) == <<step(f.f1, x, acc[1]), acc[2]>>
Par2_step(f, x, acc) == <<step(f.f1, x, acc[1]), step(f.f2, x, acc[2])>>
Par2_step_chunk(f, s, acc) ==
    <<step_chunk(f.f1, s, acc[1]), step_chunk(f.f2, s, acc[2])>>
Par2_output(f, acc)  == <<output(f.f1, acc[1]), output(f.f2, acc[2])>>
Par2_empty(f)        == <<empty(f.f1), empty(f.f2)>>
Par2_merge(f, a1, a2) == <<merge(f.f1, a1[1], a2[1]), merge(f.f2, a1[2], a2[2])>>

(***************************************************************************)
(* fold.rs: FilteredFold.                                                  *)
(***************************************************************************)
FilteredFold_init(f, x) == init(f.inner, x)
\* FilteredFold::step with the test of the predicate left out.
FilteredFold_step_unfiltered(f, x, acc) == step(f.inner, x, acc)
FilteredFold_step(f, x, acc) ==
    IF Apply(f.pred, x) THEN step(f.inner, x, acc) ELSE acc
\* FilteredFold::step_chunk handing the whole chunk to the inner reducer.
FilteredFold_step_chunk_unfiltered(f, s, acc) == step_chunk(f.inner, s, acc)
FilteredFold_step_chunk(f, s, acc) ==
    step_chunk(f.inner, SelectSeq(s, LAMBDA x : Apply(f.pred, x)), acc)

(***************************************************************************)
(* fold.rs: GroupedFold.  The accumulator is the FxHashMap, a function     *)
(* from the keys present to the inner accumulators.                        *)
(***************************************************************************)
EmptyMap == [k \in {} |-> 0]

GroupedFold_init(f, x) == EmptyMap
\* GroupedFold::step inserting a fresh accumulator whether or not the key is present.
GroupedFold_step_overwrite(f, x, acc) ==
    LET key == Apply(f.get_key, x)
    IN  [k \in DOMAIN acc \cup {key} |->
            IF k = key THEN init(f.inner, x) ELSE acc[k]]
GroupedFold_step(f, x, acc) ==
    LET key == Apply(f.get_key, x)
    IN  IF key \in DOMAIN acc
        THEN [acc EXCEPT ![key] = step(f.inner, x, acc[key])]
        ELSE [k \in DOMAIN acc \cup {key} |->
                 IF k = key THEN init(f.inner, x) ELSE acc[k]]
GroupedFold_output(f, acc) == [k \in DOMAIN acc |-> output(f.inner, acc[k])]
\* GroupedFold::merge without the insertion of the keys only m2 holds.
GroupedFold_merge_shared_only(f, a1, a2) ==
    [k \in DOMAIN a1 |->
        IF k \in DOMAIN a2 THEN merge(f.inner, a1[k], a2[k]) ELSE a1[k]]
GroupedFold_merge(f, a1, a2) ==
    [k \in DOMAIN a1 \cup DOMAIN a2 |->
        IF k \in DOMAIN a1 /\ k \in DOMAIN a2 THEN merge(f.inner, a1[k], a2[k])
        ELSE IF k \in DOMAIN a1 THEN a1[k]
        ELSE a2[k]]

(***************************************************************************)
(* fold.rs: PreMap and PostMap.                                            *)
(***************************************************************************)
PreMap_init(f, x)      == init(f.inner, Apply(f.pre_func, x))
PreMap_step(f, x, acc) == step(f.inner, Apply(f.pre_func, x), acc)
PostMap_output(f, acc) == Apply(f.post_func, output(f.inner, acc))

(***************************************************************************)
(* fold.rs: ComposedFold, the second reducer folded over the outputs of    *)
(* the first.                                                              *)
(***************************************************************************)
ComposedFold_init(f, x) ==
    LET a1 == init(f.first, x)
        a2 == init(f.second, output(f.first, a1))
    IN  <<a1, a2>>
\* ComposedFold::step reading the first reducer's output before its step.
ComposedFold_step_stale(f, x, acc) ==
    LET a1 == step(f.first, x, acc[1])
        y  == output(f.first, acc[1])
    IN  <<a1, step(f.second, y, acc[2])>>
ComposedFold_step(f, x, acc) ==
    LET a1 == step(f.first, x, acc[1])
        y  == output(f.first, a1)
    IN  <<a1, step(f.second, y, acc[2])>>
ComposedFold_output(f, acc) == output(f.second, acc[2])
ComposedFold_empty(f) ==
    LET a1 == empty(f.first)
        a2 == init(f.second, output(f.first, a1))
    IN  <<a1, a2>>

(***************************************************************************)
(* Fold1::step_chunk, the default of the trait: step once per item.        *)
(***************************************************************************)
RECURSIVE Fold1_step_chunk(_, _, _)
Fold1_step_chunk(f, s, acc) ==
    IF s = <<>> THEN acc
    ELSE Fold1_step_chunk(f, Tail(s), step(f, Head(s), acc))

(***************************************************************************)
(* f64 arithmetic of stats.rs.  A float is the pair <<p, q>> of the exact  *)
(* rational p/q in lowest terms with q > 0; <<1, 0>> and <<-1, 0>> are the *)
(* infinities and <<0, 0>> is NaN.  Rounding is not modelled: an equation  *)
(* that holds here holds in f64 up to rounding, and one that fails here by *)
(* a non-zero rational fails in f64 beyond rounding.                       *)
(***************************************************************************)
Abs(a) == IF a < 0 THEN -a ELSE a
Sgn(a) == IF a < 0 THEN -1 ELSE IF a > 0 THEN 1 ELSE 0

RECURSIVE GCD(_, _)
GCD(a, b) == IF b = 0 THEN a ELSE GCD(b, a % b)

RNorm(p, q) ==
    IF q = 0 THEN <<Sgn(p), 0>>
    ELSE LET g == GCD(Abs(p), Abs(q))
         IN  <<(Sgn(q) * p) \div g, Abs(q) \div g>>

Rat(i)  == <<i, 1>>
NaN     == <<0, 0>>
RNeg(a) == <<-a[1], a[2]>>
RAdd(a, b) ==
    IF a[2] = 0 /\ b[2] = 0 THEN (IF a[1] = b[1] THEN a ELSE NaN)
    ELSE IF a[2] = 0 THEN a
    ELSE IF b[2] = 0 THEN b
    ELSE RNorm(a[1] * b[2] + b[1] * a[2], a[2] * b[2])
RSub(a, b) == RAdd(a, RNeg(b))
RMul(a, b) ==
    IF a[2] = 0 \/ b[2] = 0 THEN <<Sgn(a[1]) * Sgn(b[1]), 0>>
    ELSE RNorm(a[1] * b[1], a[2] * b[2])
RInv(a) ==
    IF a[2] = 0 THEN (IF a[1] = 0 THEN NaN ELSE Rat(0))
    ELSE IF a[1] = 0 THEN <<1, 0>>
    ELSE RNorm(a[2], a[1])
RDiv(a, b) == RMul(a, RInv(b))

\* f64::powi for the exponents the source uses.
RECURSIVE powi(_, _)
powi(a, k) ==
    IF k < 0 THEN RInv(powi(a, -k))
    ELSE IF k = 0 THEN Rat(1)
    ELSE RMul(a, powi(a, k - 1))

\* a >= 0.0 in f64: false for NaN.
RGeqZero(a) == a # NaN /\ a[1] >= 0

(***************************************************************************)
(* stats.rs: CM4, the first four central moments.  The items are the f64   *)
(* values of the integers.                                                 *)
(***************************************************************************)
CM4 == [tag |-> "CM4"]

MState(n, m, new_m2, new_m3, new_m4) ==
    [n |-> n, m |-> m, m2 |-> new_m2, m3 |-> new_m3, m4 |-> new_m4]

CM4_init(x) == MState(1, Rat(x), Rat(x), Rat(x), Rat(x))

CM4_step(x, acc) ==
    LET delta   == RSub(Rat(x), acc.m)
        n       == acc.n + 1
        denom   == Rat(n)
        delta_n == RDiv(delta, Rat(n))
        one     == Rat(1)
        new_m4 == RAdd(acc.m4,
                RSub(RAdd(RMul(RMul(RMul(powi(delta_n, 3), delta),
                                    RSub(denom, one)),
                               RAdd(RSub(powi(denom, 2), RMul(Rat(3), denom)),
                                    Rat(3))),
                          RMul(RMul(Rat(6), acc.m2), powi(delta_n, 2))),
                     RMul(RMul(Rat(4), acc.m3), delta_n)))
        new_m3 == RAdd(acc.m3,
                RSub(RMul(RMul(RMul(powi(delta_n, 2), delta),
                               RSub(denom, one)),
                          RSub(denom, Rat(2))),
                     RMul(RMul(Rat(3), delta_n), acc.m2)))
        new_m2 == RAdd(acc.m2, RMul(RMul(delta_n, delta), RSub(denom, one)))
    IN  MState(n, RAdd(acc.m, RDiv(delta, denom)),
               new_m2, new_m3, new_m4)

CM4_empty == MState(0, Rat(0), Rat(0), Rat(0), Rat(0))

\* A product a * b * c * ..., evaluated from the left as Rust does.
RECURSIVE RProd(_)
RProd(s) ==
    IF Len(s) = 1 THEN s[1]
    ELSE RMul(RProd(SubSeq(s, 1, Len(s) - 1)), s[Len(s)])

\* m3_a is read from acc1.m3 after acc1.m3 has been updated.
CM4_merge(acc1, acc2) ==
    LET n_a   == Rat(acc1.n)
        n_b   == Rat(acc2.n)
        n_ab  == RAdd(n_a, n_b)
        delta == RSub(acc2.m, acc1.m)
        m2_a  == acc1.m2
        m2_b  == acc2.m2
        new_m2 == RAdd(acc1.m2,
                    RAdd(acc2.m2,
                         RDiv(RProd(<<delta, delta, n_a, n_b>>), n_ab)))
        new_m3 == RAdd(acc1.m3,
                    RAdd(RAdd(acc2.m3,
                              RProd(<<powi(delta, 3), n_a, n_b, powi(n_ab, -2),
                                      RSub(n_a, n_b)>>)),
                         RDiv(RProd(<<Rat(3), delta,
                                      RSub(RMul(n_a, m2_b), RMul(n_b, m2_a))>>),
                              n_ab)))
        m3_a  == new_m3
        m3_b  == acc2.m3
        new_m4 == RAdd(acc1.m4,
                    RAdd(RAdd(RAdd(acc2.m4,
                        RProd(<<powi(delta, 4), n_a, n_b,
                                RAdd(RSub(RMul(n_a, n_a), RMul(n_a, n_b)),
                                     RMul(n_b, n_b)),
                                powi(n_ab, -3)>>)),
                        RProd(<<Rat(6), delta, delta,
                                RAdd(RProd(<<n_a, n_a, m2_b>>),
                                     RProd(<<n_b, n_b, m2_a>>)),
                                powi(n_ab, -2)>>)),
                        RDiv(RProd(<<Rat(4), delta,
                                     RSub(RMul(n_a, m3_b), RMul(n_b, m3_a))>>),
                             n_ab)))
    IN  MState(acc1.n + acc2.n,
               RAdd(acc1.m, RDiv(RMul(delta, n_b), n_ab)),
               new_m2, new_m3, new_m4)

(***************************************************************************)
(* fold.rs: Batched.  The items are chunks (sequences) of the inner        *)
(* reducer's items.                                                        *)
(***************************************************************************)
\* Batched::init that only creates the accumulator and folds nothing.
Batched_init_unfolded(f, x) == empty(f.inner)
Batched_init(f, x)      == step_chunk(f.inner, x, empty(f.inner))
Batched_step(f, x, acc) == step_chunk(f.inner, x, acc)

(***************************************************************************)
(* Static dispatch on the implementing type.                               *)
(***************************************************************************)
init(f, x) ==
    CASE f.tag = "Sum"          -> Sum_init(x)
      [] f.tag = "Count"        -> Count_init(x)
      [] f.tag = "Min"          -> Min_init(x)
      [] f.tag = "Max"          -> Max_init(x)
      [] f.tag = "First"        -> First_init(x)
      [] f.tag = "Last"         -> Last_init(x)
      [] f.tag = "Par2"         -> Par2_init(f, x)
      [] f.tag = "FilteredFold" -> FilteredFold_init(f, x)
      [] f.tag = "GroupedFold"  -> GroupedFold_init(f, x)
      [] f.tag = "PreMap"       -> PreMap_init(f, x)
      [] f.tag = "PostMap"      -> init(f.inner, x)
      [] f.tag = "ComposedFold" -> ComposedFold_init(f, x)
      [] f.tag = "Batched"      -> Batched_init(f, x)
      [] f.tag = "CM4"          -> CM4_init(x)

step(f, x, acc) ==
    CASE f.tag = "Sum"          -> Sum_step(x, acc)
      [] f.tag = "Count"        -> Count_step(x, acc)
      [] f.tag = "Min"          -> Min_step(x, acc)
      [] f.tag = "Max"          -> Max_step(x, acc)
      [] f.tag = "First"        -> First_step(x, acc)
      [] f.tag = "Last"         -> Last_step(x, acc)
      [] f.tag = "Par2"         -> Par2_step(f, x, acc)
      [] f.tag = "FilteredFold" -> FilteredFold_step(f, x, acc)
      [] f.tag = "GroupedFold"  -> GroupedFold_step(f, x, acc)
      [] f.tag = "PreMap"       -> PreMap_step(f, x, acc)
      [] f.tag = "PostMap"      -> step(f.inner, x, acc)
      [] f.tag = "ComposedFold" -> ComposedFold_step(f, x, acc)
      [] f.tag = "Batched"      -> Batched_step(f, x, acc)
      [] f.tag = "CM4"          -> CM4_step(x, acc)

step_chunk(f, s, acc) ==
    CASE f.tag = "Sum"          -> Sum_step_chunk(s, acc)
      [] f.tag = "Count"        -> Count_step_chunk(s, acc)
      [] f.tag = "Par2"         -> Par2_step_chunk(f, s, acc)
      [] f.tag = "FilteredFold" -> FilteredFold_step_chunk(f, s, acc)
      [] OTHER                  -> Fold1_step_chunk(f, s, acc)

output(f, acc) ==
    CASE f.tag \in {"Sum", "Count", "Min", "Max", "First", "Last"} -> acc
      [] f.tag = "Par2"         -> Par2_output(f, acc)
      [] f.tag = "FilteredFold" -> output(f.inner, acc)
      [] f.tag = "GroupedFold"  -> GroupedFold_output(f, acc)
      [] f.tag = "PreMap"       -> output(f.inner, acc)
      [] f.tag = "PostMap"      -> PostMap_output(f, acc)
      [] f.tag = "ComposedFold" -> ComposedFold_output(f, acc)
      [] f.tag = "Batched"      -> output(f.inner, acc)

empty(f) ==
    CASE f.tag = "Sum"          -> Sum_empty
      [] f.tag = "Count"        -> Count_empty
      [] f.tag = "Par2"         -> Par2_empty(f)
      [] f.tag = "GroupedFold"  -> EmptyMap
      [] f.tag \in {"FilteredFold", "PreMap", "PostMap", "Batched"}
                                -> empty(f.inner)
      [] f.tag = "ComposedFold" -> ComposedFold_empty(f)
      [] f.tag = "CM4"          -> CM4_empty

merge(f, a1, a2) ==
    CASE f.tag = "Sum"          -> Sum_merge(a1, a2)
      [] f.tag = "Count"        -> Count_merge(a1, a2)
      [] f.tag = "Min"          -> Min_merge(a1, a2)
      [] f.tag = "Max"          -> Max_merge(a1, a2)
      [] f.tag = "Par2"         -> Par2_merge(f, a1, a2)
      [] f.tag = "GroupedFold"  -> GroupedFold_merge(f, a1, a2)
      [] f.tag = "CM4"          -> CM4_merge(a1, a2)
      [] f.tag \in {"FilteredFold", "PreMap", "PostMap", "Batched"}
                                -> merge(f.inner, a1, a2)

(***************************************************************************)
(* fold.rs: the sequential drivers.                                        *)
(***************************************************************************)
RECURSIVE for_each_step(_, _, _)
for_each_step(f, s, acc) ==
    IF s = <<>> THEN acc
    ELSE for_each_step(f, Tail(s), step(f, Head(s), acc))

run_fold_iter(f, s) == Value(output(f, for_each_step(f, s, empty(f))))

run_fold1_iter(f, s) ==
    IF s # <<>>
    THEN Some(output(f, for_each_step(f, Tail(s), init(f, Head(s)))))
    ELSE None

(***************************************************************************)
(* fold.rs: the fork-join drivers.  rayon's chunks(n) yields the           *)
(* contiguous chunks of n items, the last one shorter, none of them empty. *)
(* The source passes the literal 1024; the model passes chunk_size so that *)
(* inputs of a few items are split.                                        *)
(***************************************************************************)
RECURSIVE chunks(_, _)
chunks(s, n) ==
    IF s = <<>> THEN <<>>
    ELSE IF Len(s) <= n THEN <<s>>
    ELSE <<SubSeq(s, 1, n)>> \o chunks(SubSeq(s, n + 1, Len(s)), n)

\* rayon's reduce(identity, op): a leaf folds its items into identity() with
\* op, left to right; a split at the midpoint combines op(left, right).
\* Whether a range is split depends on the scheduler: the set of outcomes.
RECURSIVE reduce_leaf(_, _, _)
reduce_leaf(f, accs, acc) ==
    IF accs = <<>> THEN acc
    ELSE reduce_leaf(f, Tail(accs), merge(f, acc, Head(accs)))

RECURSIVE reduce(_, _)
reduce(f, accs) ==
    LET n    == Len(accs)
        mid  == n \div 2
        leaf == {reduce_leaf(f, accs, empty(f))}
    IN  IF n < 2 THEN leaf
        ELSE leaf \cup
             {merge(f, l, r) : l \in reduce(f, SubSeq(accs, 1, mid)),
                               r \in reduce(f, SubSeq(accs, mid + 1, n))}

run_fold_par_iter(f, s, n) ==
    LET chs  == chunks(s, n)
        accs == [c \in 1..Len(chs) |-> for_each_step(f, chs[c], empty(f))]
    IN  {Value(output(f, a)) : a \in reduce(f, accs)}

\* map_chunk with drain(0..) in place of drain(1..): nothing is left for get(0).
map_chunk_drain_all(f, ch) ==
    LET rest == ch
        kept == <<>>
    IN  IF kept = <<>> THEN None
        ELSE Some(step_chunk(f, rest, init(f, kept[1])))

\* The closure of run_fold1_par_iter's map: Vec::drain(1..) panics on a
\* chunk shorter than 1; get(0)? gives up on a chunk left without items.
map_chunk(f, ch) ==
    IF 1 > Len(ch) THEN Panic
    ELSE LET rest == SubSeq(ch, 2, Len(ch))
             kept == SubSeq(ch, 1, 1)
         IN  IF kept = <<>> THEN None
             ELSE Some(step_chunk(f, rest, init(f, kept[1])))

RECURSIVE merge_rest(_, _, _)
merge_rest(f, a0, rest) ==
    IF rest = <<>> THEN a0
    ELSE merge_rest(f, merge(f, a0, Head(rest)), Tail(rest))

run_fold1_par_iter(f, s, n) ==
    LET chs    == chunks(s, n)
        mapped == [c \in 1..Len(chs) |-> map_chunk(f, chs[c])]
        somes  == SelectSeq(mapped, LAMBDA r : r.tag = "Some")
        accs   == [c \in 1..Len(somes) |-> somes[c].val]
    IN  IF \E c \in 1..Len(mapped) : mapped[c] = Panic THEN Panic
        ELSE IF accs = <<>> THEN None
        ELSE Some(output(f, merge_rest(f, Head(accs), Tail(accs))))

(***************************************************************************)
(* The inputs of the model.                                                *)
(***************************************************************************)
iota(n) == [i \in 1..n |-> i - 1]

SeqsUpTo(S, n) == UNION {[1..k -> S] : k \in 0..n}

Inputs ==
    SeqsUpTo(0..MaxVal, MaxLen) \cup {iota(n) : n \in 0..MaxN}
        \cup {<<1, 2, 3, 4, 5>>}

Folds ==
    << SUM, COUNT, MIN, MAX, FIRST, LAST,
       par(SUM, COUNT), par(MIN, MAX),
       par(SUM, par(MIN, MAX)), par(FIRST, par(LAST, COUNT)),
       filter(SUM, "is_even"), filter(MIN, "is_even"),
       group_by(SUM, "mod2"), group_by(COUNT, "mod2"), group_by(MAX, "mod2"),
       pre_map(SUM, "double"), post_map(SUM, "succ"),
       pre_map(MAX, "double"), post_map(MIN, "succ"),
       then(SUM, COUNT), then(SUM, SUM), then(COUNT, SUM), then(MAX, SUM),
       then(LAST, COUNT),
       batched(SUM), batched(filter(SUM, "is_even")),
       batched(group_by(SUM, "mod2")) >>

\* The inputs of a batched reducer: up to MaxChunk chunks of up to MaxChunk
\* items each, the empty chunk included.
BatchItems == {1, 2}
BatchedInputs == SeqsUpTo(SeqsUpTo(BatchItems, MaxChunk), MaxChunk)

(***************************************************************************)
(* Spec: every driver applied to every reducer and input.                  *)
(***************************************************************************)
AccIdle ==
    /\ accA = 0 /\ accB = 0 /\ histA = <<>> /\ histB = <<>>
    /\ madeA = "none" /\ madeB = "none" /\ merged_ab = FALSE

StreamIdle ==
    /\ j = 0 /\ stream = <<>> /\ stream_done = FALSE /\ queue = <<>>
    /\ m1 = 0 /\ m2 = Idle /\ pc = "idle" /\ tasks = <<>>
    /\ finished = <<>> /\ merge_log = <<>>

Init ==
    /\ \E i \in 1..Len(Folds) : fold = Folds[i]
    /\ xs \in IF fold.tag = "Batched" THEN BatchedInputs ELSE Inputs
    \* a batched input is already a sequence of chunks: the fork-join
    \* drivers split it chunk by chunk
    /\ chunk_size \in IF fold.tag = "Batched" THEN {1} ELSE 1..MaxChunk
    /\ call = "idle"
    /\ ret = Idle
    /\ AccIdle
    /\ StreamIdle

RunFoldIter ==
    /\ IsFold(fold)
    /\ call' = "run_fold_iter"
    /\ ret' = run_fold_iter(fold, xs)
    /\ UNCHANGED <<fold, xs, chunk_size, acc_vars, stream_vars>>

RunFold1Iter ==
    /\ call' = "run_fold1_iter"
    /\ ret' = run_fold1_iter(fold, xs)
    /\ UNCHANGED <<fold, xs, chunk_size, acc_vars, stream_vars>>

RunFoldParIter ==
    /\ IsFold(fold) /\ IsFoldPar(fold)
    /\ call' = "run_fold_par_iter"
    /\ ret' \in run_fold_par_iter(fold, xs, chunk_size)
    /\ UNCHANGED <<fold, xs, chunk_size, acc_vars, stream_vars>>

RunFold1ParIter ==
    /\ IsFold(fold) /\ IsFoldPar(fold) /\ IsCopyM(fold)
    /\ call' = "run_fold1_par_iter"
    /\ ret' = run_fold1_par_iter(fold, xs, chunk_size)
    /\ UNCHANGED <<fold, xs, chunk_size, acc_vars, stream_vars>>

\* One call fold.step_chunk(chunk, &mut acc): the accumulator is the one a
\* driver holds after a prefix of xs (created by init, or by empty when the
\* reducer has one) and the chunk is the rest of xs.
Chunked(acc0, chunk, acc1) ==
    [tag |-> "Chunked", acc0 |-> acc0, chunk |-> chunk, acc1 |-> acc1]

StepChunk ==
    \E k \in 0..Len(xs), made \in {"init", "empty"} :
        /\ made = "init" => k >= 1
        /\ made = "empty" => IsFold(fold)
        /\ LET prefix == SubSeq(xs, 1, k)
               chunk  == SubSeq(xs, k + 1, Len(xs))
               acc    == IF made = "init"
                         THEN for_each_step(fold, Tail(prefix),
                                            init(fold, Head(prefix)))
                         ELSE for_each_step(fold, prefix, empty(fold))
           IN  /\ call' = "step_chunk"
               /\ ret' = Chunked(acc, chunk, step_chunk(fold, chunk, acc))
        /\ UNCHANGED <<fold, xs, chunk_size, acc_vars, stream_vars>>

Next ==
    \/ RunFoldIter \/ RunFold1Iter \/ RunFoldParIter \/ RunFold1ParIter
    \/ StepChunk

Spec == Init /\ [][Next]_vars

(***************************************************************************)
(* SpecAcc: two accumulators A and B of one mergeable reducer, each        *)
(* created by init or by empty and advanced by step, then B merged into A. *)
(***************************************************************************)
AccFolds ==
    << SUM, COUNT, MIN, MAX, par(SUM, COUNT), par(MIN, MAX),
       filter(SUM, "is_even"), filter(MIN, "is_even"),
       group_by(SUM, "mod2"), group_by(MAX, "mod2"),
       pre_map(SUM, "double"), pre_map(MAX, "double"),
       post_map(SUM, "succ"), post_map(MIN, "succ") >>

\* The items of the reducers are unsigned or arbitrary integers, those of
\* CM4 are f64 and the model takes a negative one too.
Items(f) == IF f.tag = "CM4" THEN (-1)..MaxVal ELSE 0..MaxVal

InitAcc ==
    /\ \E i \in 1..Len(AccFolds) : fold = AccFolds[i]
    /\ xs = <<>>
    /\ chunk_size = 1
    /\ call = "idle"
    /\ ret = Idle
    /\ AccIdle
    /\ StreamIdle

InitA ==
    /\ madeA = "none"
    /\ \E x \in Items(fold) :
          /\ accA' = init(fold, x)
          /\ histA' = <<x>>
    /\ madeA' = "init"
    /\ UNCHANGED <<fold, xs, chunk_size, driver_vars, stream_vars,
                   accB, histB, madeB, merged_ab>>

EmptyA ==
    /\ madeA = "none"
    /\ IsFold(fold)
    /\ accA' = empty(fold)
    /\ madeA' = "empty"
    /\ UNCHANGED <<fold, xs, chunk_size, driver_vars, stream_vars,
                   histA, accB, histB, madeB, merged_ab>>

StepA ==
    /\ madeA # "none"
    /\ ~merged_ab
    /\ Len(histA) < MaxHist
    /\ \E x \in Items(fold) :
          /\ accA' = step(fold, x, accA)
          /\ histA' = Append(histA, x)
    /\ UNCHANGED <<fold, xs, chunk_size, driver_vars, stream_vars,
                   madeA, accB, histB, madeB, merged_ab>>

InitB ==
    /\ madeB = "none"
    /\ \E x \in Items(fold) :
          /\ accB' = init(fold, x)
          /\ histB' = <<x>>
    /\ madeB' = "init"
    /\ UNCHANGED <<fold, xs, chunk_size, driver_vars, stream_vars,
                   accA, histA, madeA, merged_ab>>

EmptyB ==
    /\ madeB = "none"
    /\ IsFold(fold)
    /\ accB' = empty(fold)
    /\ madeB' = "empty"
    /\ UNCHANGED <<fold, xs, chunk_size, driver_vars, stream_vars,
                   histB, accA, histA, madeA, merged_ab>>

StepB ==
    /\ madeB # "none"
    /\ ~merged_ab
    /\ Len(histB) < MaxHist
    /\ \E x \in Items(fold) :
          /\ accB' = step(fold, x, accB)
          /\ histB' = Append(histB, x)
    /\ UNCHANGED <<fold, xs, chunk_size, driver_vars, stream_vars,
                   madeB, accA, histA, madeA, merged_ab>>

MergeAB ==
    /\ madeA # "none" /\ madeB # "none"
    /\ ~merged_ab
    /\ IsFoldPar(fold)
    /\ accA' = merge(fold, accA, accB)
    /\ merged_ab' = TRUE
    /\ UNCHANGED <<fold, xs, chunk_size, driver_vars, stream_vars,
                   accB, histA, histB, madeA, madeB>>

NextAcc == InitA \/ EmptyA \/ StepA \/ InitB \/ EmptyB \/ StepB \/ MergeAB

SpecAcc == InitAcc /\ [][NextAcc]_vars

\* SpecCM4: the same two accumulators for the moments reducer.
InitCM4 ==
    /\ fold = CM4
    /\ xs = <<>>
    /\ chunk_size = 1
    /\ call = "idle"
    /\ ret = Idle
    /\ AccIdle
    /\ StreamIdle

SpecCM4 == InitCM4 /\ [][NextAcc]_vars

\* SpecSeed: the same two accumulators for the reducers whose empty() the
\* parallel drivers seed their reduction with.
SeedFolds == << SUM, COUNT, group_by(SUM, "mod2"), CM4 >>

InitSeed ==
    /\ \E i \in 1..Len(SeedFolds) : fold = SeedFolds[i]
    /\ xs = <<>>
    /\ chunk_size = 1
    /\ call = "idle"
    /\ ret = Idle
    /\ AccIdle
    /\ StreamIdle

SpecSeed == InitSeed /\ [][NextAcc]_vars

(***************************************************************************)
(* SpecStream: run_fold_par_stream.  xs.map(spawn_blocking(f.init(x)))     *)
(* .buffered(j) keeps at most j JoinHandles in a queue in submission       *)
(* order; the tasks run on the blocking pool and finish in any order;      *)
(* fold(empty, closure) hands each yielded result to the closure.          *)
(***************************************************************************)
Pending == [tag |-> "Pending"]
Ok(v)   == [tag |-> "Ok", val |-> v]
Err     == [tag |-> "Err"]

\* Items 1, 2, 4, ...: a sum of them tells which of them were added.
RECURSIVE pow2(_)
pow2(n) == IF n = 0 THEN 1 ELSE 2 * pow2(n - 1)

StreamInputs == {[i \in 1..n |-> pow2(i - 1)] : n \in 0..MaxItems}

StreamFolds ==
    << SUM, COUNT, par(SUM, COUNT), filter(SUM, "is_even"),
       group_by(SUM, "mod2") >>

\* The bound compared with <= : one future too many is let in.
buffered_can_poll_inclusive(q, max) == Len(q) <= max

\* The bound taken one too low: with max = 1 the stream is never polled.
buffered_can_poll_short(q, max) == Len(q) < max - 1

\* Buffered::poll_next polls the stream while its queue holds fewer than max.
buffered_can_poll(q, max) == Len(q) < max

\* buffer_unordered in place of buffered: any finished future is yielded.
buffered_ready_unordered(q, t) ==
    {p \in 1..Len(q) : t[q[p]].res.tag # "Pending"}

\* The queue positions whose result may be yielded next: the queue is a
\* FuturesOrdered, so only the future pushed first, once it is done.
buffered_ready(q, t) ==
    IF q # <<>> /\ t[Head(q)].res.tag # "Pending" THEN {1} ELSE {}

\* What awaiting the JoinHandle of spawn_blocking(move || f.init(x)) gives:
\* Ok(accumulator), or a JoinError when the task panicked or was cancelled.
spawn_blocking(f, x) == {Ok(init(f, x)), Err}

\* The closure starting over from empty() on a failed task.
fold_closure_reset(f, a, r) ==
    IF r.tag = "Ok" THEN merge(f, a, r.val) ELSE empty(f)

\* The closure of the stream fold.
fold_closure(f, a, r) == IF r.tag = "Ok" THEN merge(f, a, r.val) ELSE a

RemoveAt(q, p) == SubSeq(q, 1, p - 1) \o SubSeq(q, p + 1, Len(q))

InitStream ==
    /\ \E i \in 1..Len(StreamFolds) : fold = StreamFolds[i]
    /\ xs \in StreamInputs
    /\ chunk_size = 1
    /\ call = "idle"
    /\ ret = Idle
    /\ AccIdle
    /\ j \in 0..MaxJ
    /\ stream = xs
    /\ stream_done = FALSE
    /\ queue = <<>>
    /\ m1 = empty(fold)
    /\ m2 = Idle
    /\ pc = "poll"
    /\ tasks = <<>>
    /\ finished = <<>>
    /\ merge_log = <<>>

\* Buffered takes the next element of the stream: map's closure spawns the task.
PollSpawn ==
    /\ pc = "poll"
    /\ buffered_can_poll(queue, j)
    /\ stream # <<>>
    /\ tasks' = Append(tasks, [item |-> Head(stream), res |-> Pending])
    /\ queue' = Append(queue, Len(tasks) + 1)
    /\ stream' = Tail(stream)
    /\ UNCHANGED <<fold, xs, chunk_size, driver_vars, acc_vars, j,
                   stream_done, m1, m2, pc, finished, merge_log>>

\* Buffered polls the stream and finds it ended.
PollEnd ==
    /\ pc = "poll"
    /\ buffered_can_poll(queue, j)
    /\ stream = <<>>
    /\ ~stream_done
    /\ stream_done' = TRUE
    /\ UNCHANGED <<fold, xs, chunk_size, driver_vars, acc_vars, j, stream,
                   queue, m1, m2, pc, tasks, finished, merge_log>>

\* A task ends on its blocking thread.
TaskFinish ==
    \E i \in 1..Len(tasks) :
        /\ tasks[i].res.tag = "Pending"
        /\ \E r \in spawn_blocking(fold, tasks[i].item) :
              tasks' = [tasks EXCEPT ![i].res = r]
        /\ finished' = Append(finished, i)
        /\ UNCHANGED <<fold, xs, chunk_size, driver_vars, acc_vars, j, stream,
                       stream_done, queue, m1, m2, pc, merge_log>>

\* Buffered yields a finished result; the fold calls its closure with it.
Yield ==
    /\ pc = "poll"
    /\ \E p \in buffered_ready(queue, tasks) :
          /\ m2' = [task |-> queue[p], res |-> tasks[queue[p]].res]
          /\ queue' = RemoveAt(queue, p)
    /\ pc' = "merge"
    /\ UNCHANGED <<fold, xs, chunk_size, driver_vars, acc_vars, j, stream,
                   stream_done, m1, tasks, finished, merge_log>>

\* The closure runs to its end: it has no await.
Merge ==
    /\ pc = "merge"
    /\ m1' = fold_closure(fold, m1, m2.res)
    /\ merge_log' = IF m2.res.tag = "Ok" THEN Append(merge_log, m2.task)
                    ELSE merge_log
    /\ m2' = Idle
    /\ pc' = "poll"
    /\ UNCHANGED <<fold, xs, chunk_size, driver_vars, acc_vars, j, stream,
                   stream_done, queue, tasks, finished>>

\* Buffered ends once its queue is empty and the stream is done.
Finish ==
    /\ pc = "poll"
    /\ queue = <<>>
    /\ stream_done
    /\ call' = "run_fold_par_stream"
    /\ ret' = Some(output(fold, m1))
    /\ pc' = "done"
    /\ UNCHANGED <<fold, xs, chunk_size, acc_vars, j, stream, stream_done,
                   queue, m1, m2, tasks, finished, merge_log>>

DriverStep == PollSpawn \/ PollEnd \/ Yield \/ Merge \/ Finish

NextStream == DriverStep \/ TaskFinish

SpecStream == InitStream /\ [][NextStream]_vars

\* The stream is finite, the driver's future keeps being polled and every
\* task ends.
FairSpecStream ==
    SpecStream /\ WF_vars(DriverStep) /\ WF_vars(TaskFinish)

(***************************************************************************)
(* stats.rs: SampleN, reservoir sampling of N items.  The accumulator is   *)
(* the enum Resevoir: Filling(xs) or Resevoir(rng, w, skip, res).  The     *)
(* generator rng and the weight w act on the rest of the state only        *)
(* through the branch `r > ln_1p(-w)` and the index drawn for the          *)
(* replacement; both are random, so sample is the set of the states it can *)
(* leave, one per branch and index, and rng and w are not kept.            *)
(***************************************************************************)
sample_n(n) == [tag |-> "SampleN", N |-> n]

Filling(s)          == [tag |-> "Filling", xs |-> s]
Resevoir(skip, res) == [tag |-> "Resevoir", skip |-> skip, res |-> res]

\* The Err variant of Result<[A; N], Vec<A>>.
ErrOf(v) == [tag |-> "Err", val |-> v]

Resevoir_new_empty == Filling(<<>>)

\* Resevoir::sample becoming active one item late.
Resevoir_sample_late(N, acc, x) ==
    IF acc.tag = "Filling"
    THEN LET s == Append(acc.xs, x)
         IN  {IF Len(s) = N + 1 THEN Resevoir(1, SubSeq(s, 1, N)) ELSE Filling(s)}
    ELSE {acc}
\* `*skip -= 1` on a usize: below zero a debug build panics and a release
\* build wraps to usize::MAX; either way the countdown has underflowed.
Underflow(res) == [tag |-> "Underflow", skip |-> 0, res |-> res]
usize_dec(skip, res) ==
    IF skip = 0 THEN Underflow(res) ELSE Resevoir(skip - 1, res)

\* Resevoir::sample without the `*skip += 1` that follows the replacement.
Resevoir_sample_no_rearm(N, acc, x) ==
    IF acc.tag = "Filling"
    THEN LET s == Append(acc.xs, x)
         IN  {IF Len(s) = N THEN Resevoir(1, s) ELSE Filling(s)}
    ELSE IF acc.tag = "Underflow" THEN {acc}
    ELSE UNION {
           LET skip1 == IF sampled THEN acc.skip ELSE acc.skip + 1
           IN  IF skip1 = 0
               THEN {usize_dec(skip1, [acc.res EXCEPT ![i] = x]) : i \in 1..N}
               ELSE {usize_dec(skip1, acc.res)} :
           sampled \in BOOLEAN}
Resevoir_sample(N, acc, x) ==
    IF acc.tag = "Filling"
    THEN LET s == Append(acc.xs, x)
         IN  {IF Len(s) = N THEN Resevoir(1, s) ELSE Filling(s)}
    ELSE IF acc.tag = "Underflow" THEN {acc}
    ELSE UNION {
           LET skip1 == IF sampled THEN acc.skip ELSE acc.skip + 1
           IN  IF skip1 = 0
               THEN {usize_dec(skip1 + 1, [acc.res EXCEPT ![i] = x]) :
                        i \in 1..N}
               ELSE {usize_dec(skip1, acc.res)} :
           sampled \in BOOLEAN}

SampleN_init(x)            == Filling(<<x>>)
SampleN_step(f, x, acc)    == Resevoir_sample(f.N, acc, x)
SampleN_output(acc)        ==
    IF acc.tag = "Filling" THEN ErrOf(acc.xs) ELSE Ok(acc.res)
SampleN_empty              == Resevoir_new_empty

(***************************************************************************)
(* SpecRes: one reservoir accumulator A of SampleN::<N>, created by init   *)
(* or by empty, advanced by step on the items of a stream and consumed by  *)
(* output, as run_fold1_iter and run_fold_iter do.                         *)
(***************************************************************************)
InitRes ==
    /\ fold \in {sample_n(n) : n \in 1..MaxSample}
    /\ xs = <<>>
    /\ chunk_size = 1
    /\ call = "idle"
    /\ ret = Idle
    /\ AccIdle
    /\ StreamIdle

ResInit ==
    /\ madeA = "none"
    /\ \E x \in 0..MaxVal :
          /\ accA' = SampleN_init(x)
          /\ histA' = <<x>>
    /\ madeA' = "init"
    /\ UNCHANGED <<fold, xs, chunk_size, driver_vars, stream_vars,
                   accB, histB, madeB, merged_ab>>

ResEmpty ==
    /\ madeA = "none"
    /\ accA' = SampleN_empty
    /\ madeA' = "empty"
    /\ UNCHANGED <<fold, xs, chunk_size, driver_vars, stream_vars,
                   histA, accB, histB, madeB, merged_ab>>

ResStep ==
    /\ madeA # "none"
    /\ call = "idle"
    /\ Len(histA) < MaxItems
    /\ \E x \in 0..MaxVal :
          /\ accA' \in SampleN_step(fold, x, accA)
          /\ histA' = Append(histA, x)
    /\ UNCHANGED <<fold, xs, chunk_size, driver_vars, stream_vars,
                   madeA, accB, histB, madeB, merged_ab>>

ResOutput ==
    /\ madeA # "none"
    /\ call = "idle"
    /\ call' = "output"
    /\ ret' = SampleN_output(accA)
    /\ UNCHANGED <<fold, xs, chunk_size, acc_vars, stream_vars>>

NextRes == ResInit \/ ResEmpty \/ ResStep \/ ResOutput

SpecRes == InitRes /\ [][NextRes]_vars

(***************************************************************************)
(* Properties of the drivers, checked under Spec.                          *)
(***************************************************************************)

\* C1: a partial-fold driver (run_fold1_iter, run_fold1_par_iter) returns
\* None exactly when its input is empty and Some(output) for every non-empty
\* input; it never panics.
C1_PartialDriverNoneIffEmpty ==
    call \in {"run_fold1_iter", "run_fold1_par_iter"} =>
        /\ ret.tag # "Panic"
        /\ (xs = <<>>) <=> (ret = None)
        /\ (xs # <<>>) <=> (ret.tag = "Some")

C1_Witness ==
    /\ call = "run_fold1_par_iter"
    /\ xs = <<>>
    /\ ret = None

\* C2: for Sum and Count over 0..n, every chunk size, the four drivers
\* return the same value, n(n-1)/2 for Sum and n for Count; for n = 0 the
\* partial-fold drivers return None and the total-fold drivers return 0.
C2_DriversAgreeOnIota ==
    (fold.tag \in {"Sum", "Count"} /\ xs = iota(Len(xs))) =>
        LET n == Len(xs)
            e == IF fold.tag = "Sum" THEN (n * (n - 1)) \div 2 ELSE n
        IN  /\ call \in {"run_fold_iter", "run_fold_par_iter"} =>
                  ret = Value(e)
            /\ call \in {"run_fold1_iter", "run_fold1_par_iter"} =>
                  ret = IF n = 0 THEN None ELSE Some(e)
            /\ (n = 0 /\ call \in {"run_fold_iter", "run_fold_par_iter"}) =>
                  ret = Value(0)

C2_Witness ==
    /\ call = "run_fold1_par_iter"
    /\ fold = SUM
    /\ xs = iota(5)
    /\ chunk_size = 2
    /\ ret = Some(10)

\* C8: under run_fold_iter, group_by(key_fn) of an inner reducer returns a
\* map whose keys are exactly the keys of the input items, each mapped to
\* the inner reducer's fold (init on the first item of that key, step on
\* the later ones) over the items of that key; group_by(x % 2) of Sum over
\* [1,2,3,4,5] is {0: 6, 1: 9}.
C8_GroupByPartitions ==
    (call = "run_fold_iter" /\ fold.tag = "GroupedFold") =>
        LET keys   == {Apply(fold.get_key, xs[i]) : i \in 1..Len(xs)}
            sub(k) == SelectSeq(xs, LAMBDA x : Apply(fold.get_key, x) = k)
        IN  /\ ret.tag = "Value"
            /\ DOMAIN ret.val = keys
            /\ \A k \in keys :
                  ret.val[k] =
                      output(fold.inner,
                             for_each_step(fold.inner, Tail(sub(k)),
                                           init(fold.inner, Head(sub(k)))))
            /\ (fold = group_by(SUM, "mod2") /\ xs = <<1, 2, 3, 4, 5>>) =>
                  ret.val = (0 :> 6 @@ 1 :> 9)

C8_Witness ==
    /\ call = "run_fold_iter"
    /\ fold = group_by(SUM, "mod2")
    /\ xs = <<1, 2, 3, 4, 5>>
    /\ ret = Value(0 :> 6 @@ 1 :> 9)

\* The outputs of reducer f after each item of s, the accumulator created
\* by init on the first item (partial fold) or by empty (total fold).
running_outputs1(f, s) ==
    [i \in 1..Len(s) |->
        output(f, for_each_step(f, SubSeq(s, 2, i), init(f, s[1])))]

running_outputs(f, s) ==
    [i \in 1..Len(s) |-> output(f, for_each_step(f, SubSeq(s, 1, i), empty(f)))]

\* C9: under run_fold1_iter, first.then(second) over a non-empty [x1..xk]
\* returns the fold of second over exactly the k running outputs of first,
\* [out(x1), out(x1,x2), ..., out(x1..xk)]; Sum.then(Count) yields k.
C9_ThenFoldsOverScan1 ==
    (call = "run_fold1_iter" /\ fold.tag = "ComposedFold" /\ xs # <<>>) =>
        /\ ret = run_fold1_iter(fold.second, running_outputs1(fold.first, xs))
        /\ fold = then(SUM, COUNT) => ret = Some(Len(xs))

C9_Witness ==
    /\ call = "run_fold1_iter"
    /\ fold = then(SUM, SUM)
    /\ xs = <<1, 2, 2>>
    /\ ret = Some(9)

\* C10: under run_fold_iter, first.then(second) over [a,b,c] folds second
\* over exactly the running outputs [out(a), out(a,b), out(a,b,c)], one
\* input per item and no other; Sum.then(Count) over k items yields k.
C10_ThenFoldsOverScan ==
    (call = "run_fold_iter" /\ fold.tag = "ComposedFold" /\ xs # <<>>) =>
        /\ ret.val =
              run_fold1_iter(fold.second, running_outputs(fold.first, xs)).val
        /\ fold = then(SUM, COUNT) => ret = Value(Len(xs))

(***************************************************************************)
(* Properties of run_fold_par_stream, checked under SpecStream and         *)
(* FairSpecStream.                                                         *)
(***************************************************************************)
Position(log, i) == CHOOSE p \in 1..Len(log) : log[p] = i
InLog(log, i)    == \E p \in 1..Len(log) : log[p] = i
Occurrences(log, i) == Cardinality({p \in 1..Len(log) : log[p] = i})

OkTasks == {i \in 1..Len(tasks) : tasks[i].res.tag = "Ok"}

\* The accumulators of the tasks of log, in that order.
LogAccs(log) == [p \in 1..Len(log) |-> tasks[log[p]].res.val]

\* The items of the tasks of log, in that order.
LogItems(log) == [p \in 1..Len(log) |-> tasks[log[p]].item]

\* C3 (as stated): the accumulators are merged in the order in which the
\* tasks complete: when task b is merged, every successful task that
\* finished before b has been merged before it.
C3_MergedInCompletionOrder ==
    \A a, b \in OkTasks :
        (Position(finished, a) < Position(finished, b) /\ InLog(merge_log, b))
            => /\ InLog(merge_log, a)
               /\ Position(merge_log, a) < Position(merge_log, b)

\* C3 (amended): the accumulators are merged in the order in which the
\* tasks were submitted, whatever the order in which they complete: when
\* task b is merged, every earlier-submitted task has finished, and those
\* that succeeded have been merged before b.
C3_MergedInSubmissionOrder ==
    \A b \in 1..Len(tasks) :
        InLog(merge_log, b) =>
            \A a \in 1..(b - 1) :
                /\ tasks[a].res.tag # "Pending"
                /\ a \in OkTasks =>
                      /\ InLog(merge_log, a)
                      /\ Position(merge_log, a) < Position(merge_log, b)

C3_Witness ==
    \E a, b \in OkTasks :
        /\ a < b
        /\ Position(finished, b) < Position(finished, a)
        /\ InLog(merge_log, a) /\ InLog(merge_log, b)
        /\ Position(merge_log, a) < Position(merge_log, b)

\* C4: a task that fails is skipped: the running accumulator is the merge
\* of the accumulators of the merged tasks, all of them successful, so a
\* failed task leaves it unchanged; the driver returns Some(output) of the
\* merge of exactly the successful tasks' accumulators (for Sum the sum of
\* their items, for Count their number).
C4_FailedTaskSkipped ==
    /\ \A p \in 1..Len(merge_log) : merge_log[p] \in OkTasks
    /\ pc \in {"poll", "done"} =>
          m1 = merge_rest(fold, empty(fold), LogAccs(merge_log))
    /\ pc = "done" =>
          /\ {merge_log[p] : p \in 1..Len(merge_log)} = OkTasks
          /\ \A i \in OkTasks : Occurrences(merge_log, i) = 1
          /\ ret = Some(output(fold, m1))
          /\ fold = SUM => ret = Some(SeqSum(LogItems(merge_log)))
          /\ fold = COUNT => ret = Some(Cardinality(OkTasks))

C4_Witness ==
    /\ pc = "done"
    /\ fold = SUM
    /\ \E a, b, c \in 1..Len(tasks) :
          /\ a < b /\ b < c
          /\ tasks[a].res.tag = "Ok"
          /\ tasks[b].res.tag = "Err"
          /\ tasks[c].res.tag = "Ok"
          /\ ret = Some(tasks[a].item + tasks[c].item)

\* C5: for a finite stream, j >= 1 and tasks that all end, the driver
\* terminates, and at termination every element of the stream has been
\* spawned and the accumulator of every successful task has been merged
\* into the running accumulator exactly once.
AllMergedOnce ==
    /\ Len(tasks) = Len(xs)
    /\ \A i \in 1..Len(tasks) : tasks[i].res.tag # "Pending"
    /\ \A i \in OkTasks : Occurrences(merge_log, i) = 1
    /\ m1 = merge_rest(fold, empty(fold), LogAccs(merge_log))
    /\ fold = COUNT => m1 = Cardinality(OkTasks)

C5_EventuallyAllMerged == (j >= 1) ~> (pc = "done" /\ AllMergedOnce)

C5_Witness ==
    /\ pc = "done"
    /\ j = 1
    /\ fold = COUNT
    /\ Len(xs) >= 2
    /\ Cardinality(OkTasks) = Len(xs)
    /\ ret = Some(Len(xs))

\* C6: at most j tasks are in flight (spawned, their result not yet merged
\* or dropped) at every moment, and an element is taken from the stream
\* only when fewer than j tasks are in flight.
InFlight == Len(queue) + (IF pc = "merge" THEN 1 ELSE 0)

C6_AtMostJInFlight ==
    [][/\ InFlight <= j
       /\ InFlight' <= j
       /\ Len(stream') < Len(stream) => InFlight < j]_vars

C6_Witness ==
    /\ j = 2
    /\ InFlight = 2
    /\ Len(queue) = 2
    /\ stream # <<>>

(***************************************************************************)
(* Properties of merge, checked under SpecAcc.                             *)
(***************************************************************************)

\* The accumulator of reducer f after the items of s, created the way
\* `made` says.
fold_through(f, made, s) ==
    IF made = "init" THEN for_each_step(f, Tail(s), init(f, Head(s)))
    ELSE for_each_step(f, s, empty(f))

\* C7: if A is the accumulator obtained by folding xs and B the one
\* obtained by folding ys, then after merge(A, B) the output of A is the
\* output of folding xs ++ ys through a single accumulator.
C7_MergeIsConcatenation ==
    merged_ab =>
        output(fold, accA) =
            output(fold, fold_through(fold, madeA, histA \o histB))

(***************************************************************************)
(* Properties of the combinators under the sequential drivers (Spec).      *)
(***************************************************************************)

\* C11: filter(pred) folds only the items that satisfy the predicate: under
\* run_fold_iter the result of inner.filter(pred) is the result of inner
\* over the subsequence of items x with pred(x), and a step with pred(x)
\* false leaves the accumulator unchanged.
C11_FilterFoldsSatisfying ==
    (call = "run_fold_iter" /\ fold.tag = "FilteredFold") =>
        LET kept == SelectSeq(xs, LAMBDA x : Apply(fold.pred, x))
            acc  == for_each_step(fold, xs, empty(fold))
        IN  /\ ret = run_fold_iter(fold.inner, kept)
            /\ fold.inner = SUM => ret = Value(SeqSum(kept))
            /\ \A x \in 0..MaxVal :
                  ~Apply(fold.pred, x) => step(fold, x, acc) = acc

C11_Witness ==
    /\ call = "run_fold_iter"
    /\ fold = filter(SUM, "is_even")
    /\ xs = <<1, 2, 3, 4, 5>>
    /\ ret = Value(6)

\* The least and the greatest item of a non-empty sequence.
SeqMin(s) == CHOOSE m \in {s[i] : i \in 1..Len(s)} : \A i \in 1..Len(s) : m <= s[i]
SeqMax(s) == CHOOSE m \in {s[i] : i \in 1..Len(s)} : \A i \in 1..Len(s) : m >= s[i]

\* C12: par feeds every item to both sub-reducers and returns the pair of
\* their results: for non-empty xs, run_fold1_iter of Sum.par(Min.par(Max))
\* returns (sum, (min, max)) and of First.par(Last.par(Count)) returns
\* (first, (last, length)); over 0..n these are (n(n-1)/2, (0, n-1)) and
\* (0, (n-1, n)).
C12_ParPairsResults ==
    (call = "run_fold1_iter" /\ xs # <<>>) =>
        LET n == Len(xs)
        IN  /\ fold = par(SUM, par(MIN, MAX)) =>
                  /\ ret = Some(<<SeqSum(xs), <<SeqMin(xs), SeqMax(xs)>>>>)
                  /\ xs = iota(n) =>
                        ret = Some(<<(n * (n - 1)) \div 2, <<0, n - 1>>>>)
            /\ fold = par(FIRST, par(LAST, COUNT)) =>
                  /\ ret = Some(<<xs[1], <<xs[n], n>>>>)
                  /\ xs = iota(n) => ret = Some(<<0, <<n - 1, n>>>>)

C12_Witness ==
    /\ call = "run_fold1_iter"
    /\ fold = par(SUM, par(MIN, MAX))
    /\ xs = iota(5)
    /\ ret = Some(<<10, <<0, 4>>>>)

\* C17: step_chunk is observationally the naive loop: for Sum, Count,
\* filter(pred) and par compositions, and for every accumulator and every
\* chunk (the empty one included), step_chunk(chunk, acc) leaves acc in the
\* state that stepping the chunk's items one by one, in order, leaves it in.
C17_StepChunkIsLoop ==
    (call = "step_chunk"
        /\ fold.tag \in {"Sum", "Count", "FilteredFold", "Par2"}) =>
        /\ ret.acc1 = Fold1_step_chunk(fold, ret.chunk, ret.acc0)
        /\ ret.chunk = <<>> => ret.acc1 = ret.acc0

C17_Witness ==
    /\ call = "step_chunk"
    /\ fold = filter(SUM, "is_even")
    /\ xs = <<1, 2, 3, 4, 5>>
    /\ ret = Chunked(2, <<3, 4, 5>>, 6)

\* The output each driver is expected to return for Sum under filter and
\* under group_by: the sum of the items that satisfy the predicate, and
\* the map from every key present to the sum of its items.
C20_Expected ==
    IF fold.tag = "FilteredFold"
    THEN SeqSum(SelectSeq(xs, LAMBDA x : Apply(fold.pred, x)))
    ELSE [k \in {Apply(fold.get_key, xs[i]) : i \in 1..Len(xs)} |->
            SeqSum(SelectSeq(xs, LAMBDA x : Apply(fold.get_key, x) = k))]

\* C20: the drivers agree on composed reducers: for Sum wrapped in
\* filter(pred) and in group_by(key_fn), on every non-empty input and every
\* chunk size, run_fold_iter, run_fold1_iter, run_fold_par_iter and
\* run_fold1_par_iter all return the same output, the item handed to init
\* being treated exactly like every other item.
C20_DriversAgreeOnComposed ==
    (/\ fold \in {filter(SUM, "is_even"), group_by(SUM, "mod2")}
     /\ xs # <<>>
     /\ call \in {"run_fold_iter", "run_fold1_iter", "run_fold_par_iter",
                  "run_fold1_par_iter"}) =>
        ret.val = C20_Expected

(***************************************************************************)
(* Properties of the accumulators (SpecAcc).                               *)
(***************************************************************************)

\* What one step of a group_by accumulator from acc to acc2 on item x does
\* to the key set: the key of x is added iff it was absent, and no other
\* key's accumulator changes.
C19_StepGrows(acc, x, acc2) ==
    LET key == Apply(fold.get_key, x)
    IN  /\ DOMAIN acc2 = DOMAIN acc \cup {key}
        /\ \A k \in DOMAIN acc \ {key} : acc2[k] = acc[k]
        /\ key \notin DOMAIN acc => acc2[key] = init(fold.inner, x)
        /\ key \in DOMAIN acc => acc2[key] = step(fold.inner, x, acc[key])

\* C19: the key set of a group_by accumulator only grows: step(x) adds the
\* key of x iff it was absent and changes no other key's accumulator;
\* merge(m1, m2) leaves m1 with exactly the union of the two key sets,
\* merging the inner accumulators of the shared keys and inserting
\* unchanged the entries only m2 holds; no operation removes a key.
C19_KeySetOnlyGrows ==
    [][fold.tag = "GroupedFold" =>
        /\ (madeA # "none" /\ Len(histA') = Len(histA) + 1) =>
              C19_StepGrows(accA, histA'[Len(histA')], accA')
        /\ (madeB # "none" /\ Len(histB') = Len(histB) + 1) =>
              C19_StepGrows(accB, histB'[Len(histB')], accB')
        /\ (merged_ab' /\ ~merged_ab) =>
              /\ DOMAIN accA' = DOMAIN accA \cup DOMAIN accB
              /\ \A k \in DOMAIN accA \cap DOMAIN accB :
                    accA'[k] = merge(fold.inner, accA[k], accB[k])
              /\ \A k \in DOMAIN accB \ DOMAIN accA : accA'[k] = accB[k]
              /\ \A k \in DOMAIN accA \ DOMAIN accB : accA'[k] = accA[k]
        /\ madeA # "none" => DOMAIN accA \subseteq DOMAIN accA'
        /\ madeB # "none" => DOMAIN accB \subseteq DOMAIN accB'
      ]_vars

C19_Witness ==
    /\ fold = group_by(SUM, "mod2")
    /\ madeA = "empty" /\ histA = <<0, 2>>
    /\ madeB = "empty" /\ histB = <<1, 2>>
    /\ merged_ab
    /\ accB = (0 :> 2 @@ 1 :> 1)
    /\ accA = (0 :> 4 @@ 1 :> 1)

(***************************************************************************)
(* Batched reducers under the sequential drivers (Spec).                   *)
(***************************************************************************)
RECURSIVE Concat(_)
Concat(ss) == IF ss = <<>> THEN <<>> ELSE Head(ss) \o Concat(Tail(ss))

C13_OkIffLongerThanN ==
    call = "output" =>
        LET L == Len(histA)
        IN  /\ L > fold.N => (ret.tag = "Ok" /\ Len(ret.val) = fold.N)
            /\ L <= fold.N => ret = ErrOf(histA)

\* C13, amended: for a reservoir of size N >= 1 folded from empty(), and
\* for one of size N >= 2 folded from init(x), over a stream of length L,
\* the output is Ok with exactly N elements, each an item of the stream, if
\* L >= N (for L = N the N items in arrival order), and Err with exactly
\* the L items in arrival order if L < N.
C13_OkIffAtLeastN ==
    (call = "output" /\ (madeA = "empty" \/ fold.N >= 2)) =>
        LET L == Len(histA)
        IN  /\ L >= fold.N =>
                  /\ ret.tag = "Ok"
                  /\ Len(ret.val) = fold.N
                  /\ \A i \in 1..fold.N : \E k \in 1..L : ret.val[i] = histA[k]
            /\ L = fold.N => ret = Ok(histA)
            /\ L < fold.N => ret = ErrOf(histA)

C13_Witness ==
    /\ call = "output"
    /\ madeA = "empty"
    /\ fold = sample_n(2)
    /\ histA = <<0, 1>>
    /\ ret = Ok(<<0, 1>>)

\* C14: for N >= 1 and an accumulator created by empty() or by init(x), the
\* reservoir is in the filling phase while it has received fewer than N
\* items and in the active phase from the Nth item on: it becomes active
\* exactly when the Nth item arrives and is never filling again afterwards.
C14_FillingUntilNthItem ==
    madeA # "none" => (accA.tag = "Filling" <=> Len(histA) < fold.N)

(***************************************************************************)
(* Properties of the moments accumulator, checked under SpecCM4.           *)
(***************************************************************************)

\* C15: every moments accumulator reachable from init(x), for any item x,
\* through any sequence of step and merge has n >= 1 and m2 >= 0.
C15_CountAndSpreadNonNegative ==
    /\ madeA = "init" => (accA.n >= 1 /\ RGeqZero(accA.m2))
    /\ madeB = "init" => (accB.n >= 1 /\ RGeqZero(accB.m2))

\* C16: merging the accumulator folded over the second half of a dataset
\* into the one folded over the first half, both halves non-empty, leaves
\* n, m, m2, m3 and m4 equal to those of folding the whole dataset through
\* one accumulator.
C16_MergeIsSequentialFold ==
    (merged_ab /\ histA # <<>> /\ histB # <<>>) =>
        accA = fold_through(fold, madeA, histA \o histB)

(***************************************************************************)
(* run_fold_par_stream against the sequential driver (SpecStream).         *)
(***************************************************************************)

\* C21: with j >= 1 and no failing task, run_fold_par_stream over a finite
\* stream returns Some(v) where v is the output run_fold_iter gives on the
\* same items, for Sum, Count and for Sum wrapped in filter(pred) or
\* group_by(key_fn): no element is lost and none is admitted that the
\* sequential fold rejects.
C21_ParStreamIsSequentialFold ==
    (/\ pc = "done"
     /\ j >= 1
     /\ \A i \in 1..Len(tasks) : tasks[i].res.tag = "Ok"
     /\ fold.tag \in {"Sum", "Count", "FilteredFold", "GroupedFold"}) =>
        ret = Some(run_fold_iter(fold, xs).val)

(***************************************************************************)
(* empty() as the seed of a reduction (SpecSeed).                          *)
(***************************************************************************)

\* C22: empty() is a two-sided identity for merge: for Sum, Count,
\* group_by(Sum) and CM4, and for every accumulator m reached by folding at
\* least one item, merge(empty(), m) leaves an accumulator equal to m and
\* merge(m, empty()) leaves m unchanged.
C22_EmptyIsIdentity ==
    merged_ab =>
        /\ (madeA = "empty" /\ histA = <<>> /\ histB # <<>>) => accA = accB
        /\ (madeB = "empty" /\ histB = <<>> /\ histA # <<>>) =>
              accA = fold_through(fold, madeA, histA)

(***************************************************************************)
(* The skip countdown of the active reservoir (SpecRes).                   *)
(***************************************************************************)

\* The slots of the array that a step has changed.
C23_Changed(acc, acc2) == {i \in 1..Len(acc.res) : acc2.res[i] # acc.res[i]}

\* C23: in the active phase the unsigned skip countdown never underflows:
\* it is 1 on activation and 0 or 1 after every sample call, whatever the
\* random draws are; a slot of the array is overwritten only in a sample
\* call entered with the countdown at 0, and such a call overwrites at most
\* one slot.
C23_SkipNeverUnderflows ==
    [][(madeA # "none" /\ Len(histA') = Len(histA) + 1) =>
        /\ accA'.tag # "Underflow"
        /\ (accA.tag = "Filling" /\ accA'.tag = "Resevoir") => accA'.skip = 1
        /\ accA.tag = "Resevoir" =>
              /\ accA'.tag = "Resevoir"
              /\ accA'.skip \in {0, 1}
              /\ C23_Changed(accA, accA') # {} => accA.skip = 0
              /\ Cardinality(C23_Changed(accA, accA')) <= 1
      ]_vars

C23_Witness ==
    /\ fold = sample_n(2)
    /\ madeA = "empty"
    /\ histA = <<0, 1, 1, 2>>
    /\ accA = Resevoir(0, <<2, 1>>)

====
